---- MODULE Spec2Model ----
(***************************************************************************)
(* Model of the primary controller firmware, src/atmega_sys_control.c:     *)
(* the EEPROM settings store, the packet codec (packet_config /            *)
(* var_config), the button-driven editing of main's inner loop and the     *)
(* two serial exchanges (Imp, Xbee) of every loop iteration.               *)
(*                                                                         *)
(* The LCD text matters only through its length: the config functions and  *)
(* data_corruption strcat 24 characters or more into the 24-byte str_1, so *)
(* the terminating NUL, and the characters before it when the text is      *)
(* longer, are written past the buffer. Where those bytes land is not      *)
(* defined by the language, so every overflow is a choice between the      *)
(* outcomes a build can produce: the bytes fall on memory nothing modelled *)
(* here reads, or on the globals declared after str_1, in the order of     *)
(* their declaration (current, editing, changed, pos_level).               *)
(* The first line is 24 characters at most, so the overflow of str_0 is    *)
(* one NUL. Where str_0 ends at str_1 it falls on str_1[0] and empties the *)
(* second line as far as it was written: the text str_1 is left with is    *)
(* the whole line or what was appended after that NUL, hence a set.        *)
(* The blink clock (clk, counter, pos_level) is modelled because the       *)
(* blanked Light field is two characters longer than the shown one.        *)
(* A send always finds the transmitter ready (UDRE0 set).                  *)
(* commanded and edited are history variables: no action reads them, they  *)
(* record what the peers and the user have asked for.                      *)
(* Bytes are naturals 0..255; C's uint8_t truncation is written % 256.     *)
(***************************************************************************)
EXTENDS Integers, Sequences, FiniteSets

VARIABLES
    pc,             \* position of main in its loop (see the actions)
    eeprom,         \* the nine persisted byte slots
    current,        \* global: selected panel 0 temperature, 1 humidity, 2 light
    editing,        \* global: edit phase 0, 1, 2
    changed,        \* global: the user edited something
    current_loop,   \* main: panel the inner loop was entered for
    addr,           \* main: EEPROM address of the panel loaded by the outer loop
    local_data_0,   \* main: edit buffer, first byte
    local_data_1,   \* main: edit buffer, second byte
    btn_type,       \* result of btn_db_val while its debounce loop spins
    io_char,        \* main: flags byte exchanged with the peers
    temp_char,      \* main: temperature byte exchanged with the peers
    humid_char,     \* main: humidity byte exchanged with the peers
    temp_sen,       \* global: sensed temperature
    humid_sen,      \* global: sensed humidity
    rx,             \* bytes the peer offered during the most recent exchange
    log,            \* what the most recent phase of the loop did, in order
    presses,        \* number of increment/decrement presses taken so far
    counter,        \* global: the blink clock's countdown
    pos_level,      \* global: the blink clock's level
    \* the auxiliary controller, src/unnamed/part_000
    lightsOn,       \* main: light relay wanted on
    lightsAuto,     \* main: lights follow the sensor
    coolerOn,       \* main: cooler on
    heaterOn,       \* main: heater on
    fanOn,          \* main: fan on
    acAutoModeOn,   \* main: automatic temperature control on
    temp,           \* main: the auto temperature
    PORTC,          \* bit PC0 of port C, the light relay
    aux_rx,         \* io_char and io_temp as last read from the Imp
    aux_tx,         \* the bytes sent to the Imp in the last pass of the loop
    \* history
    commanded,      \* <<settings>> of the last set command if no button was
                    \* pressed since, <<>> otherwise
    edited          \* edit phases in which a value button was released since
                    \* the controller was last Idle

\* the primary controller
main_vars == <<pc, eeprom, current, editing, changed, current_loop, addr,
               local_data_0, local_data_1, btn_type, io_char, temp_char,
               humid_char, temp_sen, humid_sen, rx, log, presses>>

\* the blink clock
mem_vars == <<counter, pos_level>>

\* the auxiliary controller
aux_vars == <<lightsOn, lightsAuto, coolerOn, heaterOn, fanOn, acAutoModeOn,
              temp, PORTC, aux_rx, aux_tx>>

\* the history of commands and edits
hist_vars == <<commanded, edited>>

vars == <<main_vars, mem_vars, aux_vars, hist_vars>>

\* the auxiliary controller when its main enters the loop (lines 119-126)
AuxBoot ==
    /\ lightsOn = 1
    /\ lightsAuto = 0
    /\ coolerOn = 0
    /\ heaterOn = 0
    /\ fanOn = 0
    /\ acAutoModeOn = 0
    /\ temp = 72
    /\ PORTC = 0
    /\ aux_rx = <<>>
    /\ aux_tx = <<>>

\* no command applied and nothing edited yet
HistBoot ==
    /\ commanded = <<>>
    /\ edited = {}

----------------------------------------------------------------------------
(* Bounds of the model                                                     *)

\* increment/decrement presses accepted in one run of the controller with
\* its peers
MaxPresses == 1

\* increment/decrement presses accepted in one run of the controller with
\* silent peers
MaxSequence == 3

----------------------------------------------------------------------------
(* EEPROM locations and protocol bytes                                     *)

TEMPR_0 == 32
TEMPR_1 == 33
HUMID_0 == 34
HUMID_1 == 35
LIGHT_0 == 36
LIGHT_1 == 37
PACKET0 == 38
PACKET1 == 39
PACKET2 == 40

Slots == {TEMPR_0, TEMPR_1, HUMID_0, HUMID_1, LIGHT_0, LIGHT_1,
          PACKET0, PACKET1, PACKET2}

\* an erased EEPROM cell; also what a timed-out read returns
ERASED == 255
\* passes of the inner loop in one period of the blink clock
TCLCL == 4
\* header of an Imp frame
IMP_HDR0 == 169
IMP_HDR1 == 101
\* header of an Xbee sensor frame and of the acknowledgement sent back
XBEE_HDR == 227
XBEE_ACK == 212

\* no byte arrived within the read's polling budget (RXC0 never set)
NoData == 256

----------------------------------------------------------------------------
(* Bit helpers on bytes                                                    *)

Bit(x, k) == (x \div (2 ^ k)) % 2
HighNibble(x) == (x \div 16) % 16
LowNibble(x) == x % 16
\* (x & 0xC0) >> 6
Top2(x) == (x \div 64) % 4
\* (uint8_t) (d << 4)
Shl4(d) == (d * 16) % 256

----------------------------------------------------------------------------
(* Wire codec: packet_config (settings -> packet)                          *)

\* digits and fields as packet_config reads them from the settings slots
tempr_high(ee) == HighNibble(ee[TEMPR_0])
tempr_low(ee) == LowNibble(ee[TEMPR_0])
humid_high(ee) == HighNibble(ee[HUMID_0])
humid_low(ee) == LowNibble(ee[HUMID_0])

\* a test that also covers the humidity digits (the check of line 432)
corrupt_humid(ee) ==
    \/ tempr_high(ee) > 9 \/ tempr_low(ee) > 9
    \/ humid_high(ee) > 9 \/ humid_low(ee) > 9

\* the test that calls data_corruption(TEMPR_0)
corrupt(ee) == tempr_high(ee) > 9 \/ tempr_low(ee) > 9

\* byte_bools with the light-on bit set for every light mode but Off
packet_bools_lit(ee) ==
    LET mode == Top2(ee[TEMPR_1])
        light == Top2(ee[LIGHT_0])
        ac_auto == IF mode = 0 THEN 1 ELSE 0
        fan_on == IF mode = 1 THEN 1 ELSE 0
        heater_on == IF mode = 2 THEN 1 ELSE 0
        cooler_on == IF mode = 3 THEN 1 ELSE 0
        lights == IF light # 1 THEN 1 ELSE 0
        lights_auto == IF light = 0 THEN 1 ELSE 0
    IN  lights_auto * 64 + lights * 32 + cooler_on * 16 + heater_on * 8
        + fan_on * 4 + ac_auto * 2

\* byte_bools: one bit per global bool
packet_bools(ee) ==
    LET mode == Top2(ee[TEMPR_1])
        light == Top2(ee[LIGHT_0])
        ac_auto == IF mode = 0 THEN 1 ELSE 0
        fan_on == IF mode = 1 THEN 1 ELSE 0
        heater_on == IF mode = 2 THEN 1 ELSE 0
        cooler_on == IF mode = 3 THEN 1 ELSE 0
        lights == IF light = 2 THEN 1 ELSE 0
        lights_auto == IF light = 0 THEN 1 ELSE 0
    IN  lights_auto * 64 + lights * 32 + cooler_on * 16 + heater_on * 8
        + fan_on * 4 + ac_auto * 2

\* byte_tempr = tempr_val & 0x7F
packet_tempr(ee) ==
    LET tempr_val == (tempr_high(ee) * 10 + tempr_low(ee)) % 256
    IN  tempr_val % 128

\* byte_humid = humid_on << 7 | (humid_val & 0x7F)
packet_humid(ee) ==
    LET humid_val == (humid_high(ee) * 10 + humid_low(ee)) % 256
        hum_e == Bit(ee[HUMID_1], 7)
    IN  hum_e * 128 + (humid_val % 128)

packet_config(ee) ==
    [ee EXCEPT ![PACKET0] = packet_bools(ee),
               ![PACKET1] = packet_tempr(ee),
               ![PACKET2] = packet_humid(ee)]

----------------------------------------------------------------------------
(* Wire codec: var_config (packet -> settings)                             *)

\* tempr_BCD / humid_BCD: (byte / 10) << 4 | byte % 10, on the whole byte
var_BCD(byte) == Shl4(byte \div 10) + (byte % 10)

\* a decode that takes Cool from its own bit 0x10 and falls back to Auto
var_tempr_set_cool_bit(byte_bools) ==
    LET tempr_set == IF Bit(byte_bools, 1) = 1 THEN 0
                     ELSE IF Bit(byte_bools, 2) = 1 THEN 1
                     ELSE IF Bit(byte_bools, 3) = 1 THEN 2
                     ELSE IF Bit(byte_bools, 4) = 1 THEN 3 ELSE 0
    IN  (tempr_set * 64) % 256

\* tempr_set: the first mode bit set, in the order 0x02, 0x04, 0x08
var_tempr_set(byte_bools) ==
    LET tempr_set == IF Bit(byte_bools, 1) = 1 THEN 0
                     ELSE IF Bit(byte_bools, 2) = 1 THEN 1
                     ELSE IF Bit(byte_bools, 3) = 1 THEN 2 ELSE 3
    IN  (tempr_set * 64) % 256

\* humid_set = byte_humid & 0x80
var_humid_set(byte_humid) == Bit(byte_humid, 7) * 128

\* light_set: 0x40 first, then 0x20
var_light_set(byte_bools) ==
    LET light_set == IF Bit(byte_bools, 6) = 1 THEN 0
                     ELSE IF Bit(byte_bools, 5) = 1 THEN 2 ELSE 1
    IN  (light_set * 64) % 256

var_config(ee) ==
    [ee EXCEPT ![TEMPR_0] = var_BCD(ee[PACKET1]),
               ![TEMPR_1] = var_tempr_set(ee[PACKET0]),
               ![HUMID_0] = var_BCD(ee[PACKET2]),
               ![HUMID_1] = var_humid_set(ee[PACKET2]),
               ![LIGHT_0] = var_light_set(ee[PACKET0])]

----------------------------------------------------------------------------
(* Editing: tempr_config, humid_config, light_config                       *)

\* tempr_incr without the wrap at 91
tempr_incr_nowrap(high, low) ==
    LET l1 == IF low + 1 > 9 THEN 0 ELSE low + 1
        h1 == IF low + 1 > 9 THEN high + 1 ELSE high
    IN  <<h1, l1>>

\* btn_type 1 in phase 2: add one degree, 9x wraps to 60
tempr_incr(high, low) ==
    LET l1 == IF low + 1 > 9 THEN 0 ELSE low + 1
        h1 == IF low + 1 > 9 THEN high + 1 ELSE high
    IN  IF h1 = 9 /\ l1 > 0 THEN <<6, 0>> ELSE <<h1, l1>>

\* btn_type 2 in phase 2: subtract one degree, 5x wraps to 90
tempr_decr(high, low) ==
    LET lm == (low + 255) % 256
        l1 == IF lm > 9 THEN 9 ELSE lm
        h1 == IF lm > 9 THEN (high + 255) % 256 ELSE high
    IN  IF h1 = 5 THEN <<9, 0>> ELSE <<h1, l1>>

\* phase 1: either button steps the mode
tempr_mode_next(mode) ==
    IF mode = 0 THEN 1 ELSE IF mode = 1 THEN 2 ELSE IF mode = 2 THEN 3 ELSE 0

\* tempr_high and tempr_low of tempr_config after button bt (0 for none) in
\* phase ed
tempr_digits(d0, ed, bt) ==
    LET high == HighNibble(d0)
        low == LowNibble(d0)
    IN  IF ed = 0 \/ ed = 1 THEN <<high, low>>
        ELSE IF bt = 1 THEN tempr_incr(high, low)
        ELSE IF bt = 2 THEN tempr_decr(high, low)
        ELSE <<high, low>>

\* a tempr_config whose decrement button steps the mode backwards in phase 1
tempr_config_dec_back(d0, d1, ed, bt) ==
    LET mode == Top2(d1)
        m1 == IF ed = 1
              THEN (IF bt = 2 THEN (mode + 3) % 4 ELSE tempr_mode_next(mode))
              ELSE mode
        hl == tempr_digits(d0, ed, bt)
    IN  <<(hl[1] * 16 + hl[2]) % 256, (m1 * 64) % 256>>

\* the edit buffer after tempr_config saw button bt (1 or 2) in phase ed
tempr_config(d0, d1, ed, bt) ==
    LET mode == Top2(d1)
        m1 == IF ed = 1 THEN tempr_mode_next(mode) ELSE mode
        hl == tempr_digits(d0, ed, bt)
    IN  <<(hl[1] * 16 + hl[2]) % 256, (m1 * 64) % 256>>

\* btn_type 1 in phase 2: add five percent
humid_incr(high, low) ==
    LET l1 == IF low + 5 > 9 THEN 0 ELSE low + 5
        h1 == IF low + 5 > 9 THEN high + 1 ELSE high
    IN  IF h1 = 10 THEN <<0, l1>> ELSE <<h1, l1>>

\* humid_decr that borrows but leaves the low digit as it wrapped
humid_decr_noborrow(high, low) ==
    LET lm == (low + 251) % 256
        l1 == IF lm > 9 THEN lm % 16 ELSE lm
        h1 == IF lm > 9 THEN (high + 255) % 256 ELSE high
    IN  IF h1 > 9 THEN <<9, l1>> ELSE <<h1, l1>>

\* btn_type 2 in phase 2: subtract five percent
humid_decr(high, low) ==
    LET lm == (low + 251) % 256
        l1 == IF lm > 9 THEN 5 ELSE lm
        h1 == IF lm > 9 THEN (high + 255) % 256 ELSE high
    IN  IF h1 > 9 THEN <<9, l1>> ELSE <<h1, l1>>

\* humid_high and humid_low of humid_config after button bt (0 for none) in
\* phase ed
humid_digits(d0, ed, bt) ==
    LET high == HighNibble(d0)
        low == LowNibble(d0)
    IN  IF ed = 0 \/ ed = 1 THEN <<high, low>>
        ELSE IF bt = 1 THEN humid_incr(high, low)
        ELSE IF bt = 2 THEN humid_decr(high, low)
        ELSE <<high, low>>

\* the edit buffer after humid_config saw button bt (1 or 2) in phase ed
humid_config(d0, d1, ed, bt) ==
    LET hum_e == Bit(d1, 7)
        e1 == IF ed = 1 THEN (IF hum_e = 0 THEN 1 ELSE 0) ELSE hum_e
        hl == humid_digits(d0, ed, bt)
    IN  <<(hl[1] * 16 + hl[2]) % 256, e1 * 128>>

\* either button steps the light setting 0 -> 1 -> 2 -> 0
light_next(light) ==
    IF light = 0 THEN 1 ELSE IF light = 1 THEN 2 ELSE 0

\* the edit buffer after light_config saw a button; the second byte is kept
light_config(d0, d1, ed, bt) ==
    <<(light_next(Top2(d0)) * 64) % 256, d1>>

\* the switch on current of main's inner loop
config(cur, d0, d1, ed, bt) ==
    IF cur = 0 THEN tempr_config(d0, d1, ed, bt)
    ELSE IF cur = 1 THEN humid_config(d0, d1, ed, bt)
    ELSE IF cur = 2 THEN light_config(d0, d1, ed, bt)
    ELSE <<d0, d1>>

----------------------------------------------------------------------------
(* The second LCD line, the bytes written past it, and the blink clock     *)

\* n spaces
Sp(n) == [i \in 1..n |-> 32]

\* sprintf "%d": the decimal digits of n as character codes
RECURSIVE Dec(_)
Dec(n) ==
    IF n < 10 THEN <<48 + n>> ELSE Dec(n \div 10) \o <<48 + (n % 10)>>

\* sprintf "%X": the upper-case hexadecimal digits of n
RECURSIVE Hex(_)
Hex(n) ==
    LET d == n % 16
        c == IF d < 10 THEN 48 + d ELSE 55 + d
    IN  IF n < 16 THEN <<c>> ELSE Hex(n \div 16) \o <<c>>

\* a number printed into buf, its first character blanked while it blinks
Field(n, blank) == IF blank THEN <<32>> \o Tail(Dec(n)) ELSE Dec(n)

\* the texts a sequence of strcat calls may leave in str_1: head is the
\* argument of the first call, rest what the later calls append. The line is
\* head and rest; it is rest alone where the NUL that ends the 24 characters
\* of str_0 is stored on str_1[0] after head
Texts(head, rest) == {head \o rest, rest}

\* str_1 as tempr_config leaves it: "   Actual/Set: 72/75 F  "
str_1_tempr(high, low, ts, ed, pl) ==
    LET blank == ed = 2 /\ pl = 0
    IN  Texts(<<32, 32, 32, 65, 99, 116, 117, 97, 108, 47, 83, 101, 116, 58,
                32>>,
              Dec(ts \div 10) \o Dec(ts % 10) \o <<47>>
              \o Field(high, blank) \o Field(low, blank)
              \o <<32, 70, 32, 32>>)

\* str_1 as humid_config leaves it: " Hum Actual/Set: 50/40%"
str_1_humid(high, low, hs, ed, pl) ==
    LET blank == ed = 2 /\ pl = 0
    IN  Texts(<<32, 72, 117, 109, 32, 65, 99, 116, 117, 97, 108, 47, 83, 101,
                116, 58, 32>>,
              Dec(hs \div 10) \o Dec(hs % 10) \o <<47>>
              \o Field(high, blank) \o Field(low, blank) \o <<37>>)

\* light after light_config saw button bt (0 for none) in phase ed
light_shown(d0, ed, bt) ==
    IF ed # 0 /\ bt # 0 THEN light_next(Top2(d0)) ELSE Top2(d0)

\* str_1 as light_config leaves it: "    Lighting: Auto      ", the setting
\* replaced by six spaces while it blinks
str_1_light(light, ed, pl) ==
    Texts(<<32, 32, 32, 32, 76, 105, 103, 104, 116, 105, 110, 103, 58, 32>>,
          (IF pl = 0 /\ ed = 1 THEN Sp(6)
           ELSE IF light = 2 THEN <<32, 79, 110, 32>>
           ELSE IF light = 1 THEN <<32, 79, 102, 102>>
           ELSE <<65, 117, 116, 111>>)
          \o Sp(6))

\* the texts str_1 may hold after the config function that main's switch
\* calls for panel cur; no function is called, and nothing written, for any
\* other value
str_1_config(cur, d0, ed, bt, ts, hs, pl) ==
    IF cur = 0
    THEN str_1_tempr(tempr_digits(d0, ed, bt)[1], tempr_digits(d0, ed, bt)[2],
                     ts, ed, pl)
    ELSE IF cur = 1
    THEN str_1_humid(humid_digits(d0, ed, bt)[1], humid_digits(d0, ed, bt)[2],
                     hs, ed, pl)
    ELSE IF cur = 2 THEN str_1_light(light_shown(d0, ed, bt), ed, pl)
    ELSE {<<>>}

\* str_1 as data_corruption leaves it: it ends the string at str_1[1], so
\* "read! addr: 0x20        " is appended to the first character of the
\* panel's line, a space; where str_0 ends at str_1 the NUL after the 24
\* characters of "Data corruption during  " has emptied str_1 before
str_1_corruption(address) ==
    Texts(<<32>>,
          <<114, 101, 97, 100, 33, 32, 97, 100, 100, 114, 58, 32>>
          \o <<48, 120>> \o Hex(address) \o Sp(8))

\* <<current, editing, changed, pos_level>> where strcat left the text s and
\* its NUL in str_1 and the globals follow the buffer: byte 24 + k of the
\* text falls on the k-th global (no text reaches further)
spilled(s, v) ==
    [k \in 1..4 |->
        IF Len(s) > 23 + k THEN s[24 + k]
        ELSE IF Len(s) = 23 + k THEN 0
        ELSE v[k]]

\* <<current, editing, changed, pos_level>> after one of texts was left in
\* str_1: as they were where the bytes past the buffer miss them, spilled
\* on where they follow it
Spills(texts, v) == {v} \cup {spilled(s, v) : s \in texts}

\* clk: <<counter, pos_level>> one pass later
clk(cnt, pl) ==
    LET c == (cnt + 255) % 256
    IN  IF c = 0 THEN <<TCLCL, 0>>
        ELSE IF c = TCLCL \div 2 THEN <<c, 1>>
        ELSE <<c, pl>>

\* the <<current, editing, changed, pos_level, counter>> possible at the end
\* of a pass in which the config function left one of texts in str_1: what
\* that text spilled, then clk, then packet_config, which calls
\* data_corruption when bad
pass_end(texts, cur, ed, ch, pl, cnt, bad) ==
    UNION { LET ck == clk(cnt, v1[4])
                v2 == <<v1[1], v1[2], v1[3], ck[2]>>
            IN  { <<v3[1], v3[2], v3[3], v3[4], ck[1]>> :
                     v3 \in IF bad
                            THEN Spills(str_1_corruption(TEMPR_0), v2)
                            ELSE {v2} } :
            v1 \in Spills(texts, <<cur, ed, ch, pl>>) }

----------------------------------------------------------------------------
(* Serial reads and what the peers may offer                               *)

\* a read that returns 0 instead of 0xFF when its budget runs out
usart_in_imp_zero(d) == IF d = NoData THEN 0 ELSE d

\* a read returns the byte that arrived, or 0xFF when its budget runs out
usart_in_imp(d) == IF d = NoData THEN 255 ELSE d
\* an Xbee read that returns 0 instead of 0xFF when its budget runs out
usart_in_xbee_zero(d) == IF d = NoData THEN 0 ELSE d

usart_in_xbee(d) == IF d = NoData THEN 255 ELSE d

\* the i-th byte a peer offers during an exchange; silence after the last one
Offered(s, i) == IF i <= Len(s) THEN s[i] ELSE NoData

ImpHeader == <<IMP_HDR0, IMP_HDR1>>

\* payloads <<flags, temperature, humidity>> of set commands
ImpSetFrames ==
    { <<36, 75, 40>>,       \* 0x24: fan + light on, 75, 40 % off
      <<0, 90, 0>>,         \* no mode bit, 90, 0 % off
      <<126, 100, 168>> }   \* 0x7E: every mode bit, 100, 40 % on (0xA8)

\* payloads of status requests (temperature byte with bit 7 set)
ImpStatusFrames ==
    { <<126, 139, 168>> }

ImpFrames == ImpSetFrames \cup ImpStatusFrames

\* byte streams the Imp may offer during one exchange: silence, a byte that
\* is no header, a frame that breaks off after two payload bytes, complete
\* frames, and a complete frame behind a stray byte
ImpRx ==
    { <<>>, <<IMP_HDR1>>, ImpHeader \o <<72, 30>>,
      <<0>> \o ImpHeader \o <<36, 75, 40>> }
    \cup { ImpHeader \o f : f \in ImpFrames }

\* payload <<temperature, humidity>> of a sensor frame: 72 F, 50 %, each with
\* bit 7 set
XbeeFrames == { <<200, 178>> }

\* byte streams the Xbee may offer during one exchange: silence, a frame
\* that breaks off after the temperature byte, a complete frame
XbeeRx ==
    { <<>> }
    \cup { <<XBEE_HDR>> \o SubSeq(f, 1, k) : f \in XbeeFrames, k \in 1..2 }

Events(kind, bytes) == [i \in 1..Len(bytes) |-> <<kind, bytes[i]>>]

----------------------------------------------------------------------------
(* Boot and the outer loop                                                 *)

\* the nine slots of a blank EEPROM
ErasedStore == [a \in Slots |-> ERASED]

\* what main writes when TEMPR_0 reads 0xFF
DefaultStore ==
    [a \in Slots |-> IF a = TEMPR_0 THEN 117
                     ELSE IF a = HUMID_0 THEN 64 ELSE 0]

\* a boot that writes the defaults whatever TEMPR_0 holds
boot_store_always(ee) == DefaultStore

\* the EEPROM after the test of line 159 and its nine writes
boot_store(ee) == IF ee[TEMPR_0] = ERASED THEN DefaultStore ELSE ee

\* addr of the outer loop
panel_addr(cur) ==
    IF cur = 2 THEN LIGHT_0 ELSE IF cur = 1 THEN HUMID_0 ELSE TEMPR_0

\* the blink clock as initialised (lines 110-111)
MemBoot ==
    /\ counter = TCLCL
    /\ pos_level = 0

Init ==
    /\ pc = "boot"
    /\ eeprom \in {ErasedStore}
    /\ current = 0
    /\ editing = 0
    /\ changed = 0
    /\ current_loop = 0
    /\ addr = TEMPR_0
    /\ local_data_0 = 0
    /\ local_data_1 = 0
    /\ btn_type = 0
    /\ io_char = 0
    /\ temp_char = 0
    /\ humid_char = 0
    /\ temp_sen = 0
    /\ humid_sen = 0
    /\ rx = <<>>
    /\ log = <<>>
    /\ presses = 0
    /\ MemBoot
    /\ AuxBoot
    /\ HistBoot

\* main up to the first pass of the inner loop
Boot ==
    /\ pc = "boot"
    /\ eeprom' = boot_store(eeprom)
    /\ current_loop' = current
    /\ addr' = panel_addr(current)
    /\ local_data_0' = eeprom'[panel_addr(current)]
    /\ local_data_1' = eeprom'[panel_addr(current) + 1]
    /\ pc' = "mod"
    /\ UNCHANGED <<current, editing, changed, btn_type, io_char, temp_char,
                   humid_char, temp_sen, humid_sen, rx, log, presses>>
    /\ UNCHANGED aux_vars
    /\ UNCHANGED mem_vars
    /\ UNCHANGED hist_vars

\* the persisted settings: temperature digits and mode, humidity digits and
\* enable, light mode
Settings(ee) ==
    [ tempr |-> <<HighNibble(ee[TEMPR_0]), LowNibble(ee[TEMPR_0])>>,
      mode |-> Top2(ee[TEMPR_1]),
      humid |-> <<HighNibble(ee[HUMID_0]), LowNibble(ee[HUMID_0])>>,
      hum_e |-> Bit(ee[HUMID_1], 7),
      light |-> Top2(ee[LIGHT_0]) ]

----------------------------------------------------------------------------
(* Buttons: btn_db_mod                                                     *)

\* btn_db_mod samples btn_0 and btn_1 and enters a debounce loop on a press
BtnDbMod ==
    /\ pc = "mod"
    /\ \E btn_0 \in BOOLEAN, btn_1 \in BOOLEAN :
          pc' = IF editing = 0 /\ btn_0 THEN "spin_0"
                ELSE IF btn_1 THEN "spin_1" ELSE "edit"
    /\ rx' = <<>>
    /\ log' = <<>>
    /\ UNCHANGED <<eeprom, current, editing, changed, current_loop, addr,
                   local_data_0, local_data_1, btn_type, io_char, temp_char,
                   humid_char, temp_sen, humid_sen, presses>>
    /\ commanded' = IF pc' = "edit" THEN commanded ELSE <<>>
    /\ UNCHANGED edited
    /\ UNCHANGED aux_vars
    /\ UNCHANGED mem_vars

\* current after the mode-select button
next_current(cur) == IF cur + 1 > 2 THEN 0 ELSE cur + 1

\* editing after the phase button on panel cur
next_editing(cur, ed) ==
    IF cur = 0 \/ cur = 1
    THEN (IF ed + 1 > 2 THEN 0 ELSE ed + 1)
    ELSE (IF ed = 0 THEN 1 ELSE 0)

\* btn_0 is released: the while loop ends, the panel advances
Release0 ==
    /\ pc = "spin_0"
    /\ current' = next_current(current)
    /\ pc' = "edit"
    /\ UNCHANGED <<eeprom, editing, changed, current_loop, addr,
                   local_data_0, local_data_1, btn_type, io_char, temp_char,
                   humid_char, temp_sen, humid_sen, rx, log, presses>>
    /\ UNCHANGED aux_vars
    /\ UNCHANGED mem_vars
    /\ UNCHANGED hist_vars

\* btn_1 is released: the while loop ends, the edit phase advances
Release1 ==
    /\ pc = "spin_1"
    /\ editing' = next_editing(current, editing)
    /\ pc' = "edit"
    /\ UNCHANGED <<eeprom, current, changed, current_loop, addr,
                   local_data_0, local_data_1, btn_type, io_char, temp_char,
                   humid_char, temp_sen, humid_sen, rx, log, presses>>
    /\ UNCHANGED aux_vars
    /\ UNCHANGED mem_vars
    /\ UNCHANGED hist_vars

----------------------------------------------------------------------------
(* The inner loop from the commit to the start of the Imp exchange         *)

\* the EEPROM after "if (!editing && changed)" with its two update_byte calls
commit(ee, ed, ch, a, d0, d1) ==
    IF ed = 0 /\ ch # 0
    THEN [ee EXCEPT ![a] = d0, ![a + 1] = d1]
    ELSE ee

commit_log(ed, ch, a) ==
    IF ed = 0 /\ ch # 0 THEN << <<"commit", a>> >> ELSE <<>>

corrupt_log(ee) ==
    IF corrupt(ee) THEN << <<"corrupt", TEMPR_0>> >> ELSE <<>>

\* btn_db_val: 1 for btn_2, 2 for btn_3, 0 for neither
btn_db_val(btn_2, btn_3) == IF btn_2 THEN 1 ELSE IF btn_3 THEN 2 ELSE 0

\* the config function reads the value buttons only while editing
reads_buttons(cur, ed) == ed # 0 /\ cur \in {0, 1, 2}

\* the globals at the end of a pass whose config function left one of texts
\* in str_1
PassEnd(ee, texts, ch) ==
    \E e \in pass_end(texts, current, editing, ch, pos_level, counter,
                      corrupt(ee)) :
        /\ current' = e[1]
        /\ editing' = e[2]
        /\ changed' = e[3]
        /\ pos_level' = e[4]
        /\ counter' = e[5]

\* packet_config and the three reads that follow it, before the Imp exchange
ToImp(ee, lg) ==
    /\ eeprom' = packet_config(ee)
    /\ io_char' = packet_config(ee)[PACKET0]
    /\ temp_char' = packet_config(ee)[PACKET1]
    /\ humid_char' = packet_config(ee)[PACKET2]
    /\ log' = lg \o corrupt_log(ee)
    /\ pc' = "imp"

\* after btn_db_mod: commit, then either leave the inner loop for the newly
\* selected panel, or run the panel's config function; max bounds the value
\* presses of a run
EditOn(max) ==
    /\ pc = "edit"
    /\ LET ee1 == commit(eeprom, editing, changed, addr,
                         local_data_0, local_data_1)
           lg == commit_log(editing, changed, addr)
       IN IF current_loop # current
          THEN /\ current_loop' = current
               /\ addr' = panel_addr(current)
               /\ local_data_0' = ee1[panel_addr(current)]
               /\ local_data_1' = ee1[panel_addr(current) + 1]
               /\ eeprom' = ee1
               /\ log' = lg
               /\ pc' = "mod"
               /\ UNCHANGED <<btn_type, io_char, temp_char, humid_char,
                              current, editing, changed, counter, pos_level>>
          ELSE \E btn_2 \in BOOLEAN, btn_3 \in BOOLEAN :
                 IF reads_buttons(current, editing)
                    /\ btn_db_val(btn_2, btn_3) # 0
                 THEN /\ presses < max
                      /\ btn_type' = btn_db_val(btn_2, btn_3)
                      /\ eeprom' = ee1
                      /\ log' = lg
                      /\ pc' = "spin_val"
                      /\ UNCHANGED <<current_loop, addr, local_data_0,
                                     local_data_1, io_char, temp_char,
                                     humid_char, current, editing, changed,
                                     counter, pos_level>>
                 ELSE /\ ToImp(ee1, lg)
                      /\ PassEnd(ee1,
                                 str_1_config(current, local_data_0, editing,
                                              0, temp_sen, humid_sen,
                                              pos_level),
                                 changed)
                      /\ UNCHANGED <<current_loop, addr, local_data_0,
                                     local_data_1, btn_type>>
    /\ UNCHANGED <<temp_sen, humid_sen, rx, presses>>
    /\ commanded' = IF pc' = "spin_val" THEN <<>> ELSE commanded
    /\ edited' = IF editing = 0 THEN {} ELSE edited
    /\ UNCHANGED aux_vars

Edit == EditOn(MaxPresses)

\* btn_2 or btn_3 is released: the config function edits the buffer
ReleaseVal ==
    /\ pc = "spin_val"
    /\ PassEnd(eeprom,
               str_1_config(current, local_data_0, editing, btn_type,
                            temp_sen, humid_sen, pos_level),
               1)
    /\ local_data_0' =
          config(current, local_data_0, local_data_1, editing, btn_type)[1]
    /\ local_data_1' =
          config(current, local_data_0, local_data_1, editing, btn_type)[2]
    /\ btn_type' = 0
    /\ presses' = presses + 1
    /\ ToImp(eeprom, log)
    /\ UNCHANGED <<current_loop, addr, temp_sen, humid_sen, rx>>
    /\ edited' = edited \cup {editing}
    /\ UNCHANGED commanded
    /\ UNCHANGED aux_vars

----------------------------------------------------------------------------
(* The Imp exchange                                                        *)

\* the status test on the wrong bit (0x40)
is_status_bit6(t) == Bit(t, 6) # 0

\* (temp_char & 0x80) != 0x00: the frame is a status request
is_status(t) == Bit(t, 7) # 0

\* a reply made of the three bytes just received
imp_reply_echo(ee, ioc, tc, hc) == <<ioc, tc, hc>>

\* the three bytes sent to the Imp on a status request
imp_reply(ee, ioc, tc, hc) ==
    << packet_config(ee)[PACKET0], packet_config(ee)[PACKET1],
       packet_config(ee)[PACKET2] >>

\* a forward that sends humidity before temperature
xbee_forward_swapped(ioc, tc, hc) == <<ioc, hc, tc>>

\* the three bytes sent to the Xbee on a set command
xbee_forward(ioc, tc, hc) == <<ioc, tc, hc>>

\* an Imp exchange that reads on until it has seen the header or a timeout
imp_next_retry(b1, b2) ==
    IF b1 = 255 \/ (b1 = IMP_HDR0 /\ (b2 = 255 \/ b2 = IMP_HDR1))
    THEN "xbee" ELSE "imp"

\* where main continues after the Imp exchange, whatever the header bytes were
imp_next(b1, b2) == "xbee"

\* the globals after the packet_config of the status branch, which calls
\* data_corruption when the stored temperature digits are not decimal
StatusSpill ==
    \E v \in IF corrupt(eeprom)
             THEN Spills(str_1_corruption(TEMPR_0),
                         <<current, editing, changed, pos_level>>)
             ELSE {<<current, editing, changed, pos_level>>} :
        /\ current' = v[1]
        /\ editing' = v[2]
        /\ changed' = v[3]
        /\ pos_level' = v[4]

\* the Imp exchange of lines 213-262, the Imp offering one of streams
ImpExchangeOn(streams) ==
    /\ pc = "imp"
    /\ \E s \in streams :
        LET b1 == usart_in_imp(Offered(s, 1))
            b2 == usart_in_imp(Offered(s, 2))
            b3 == usart_in_imp(Offered(s, 3))
            b4 == usart_in_imp(Offered(s, 4))
            b5 == usart_in_imp(Offered(s, 5))
            hdr == b1 = IMP_HDR0 /\ b2 = IMP_HDR1
            got1 == hdr /\ b3 # 255
            got2 == got1 /\ b4 # 255
            got3 == got2 /\ b5 # 255
            ioc == IF got1 THEN b3 ELSE io_char
            tc == IF got2 THEN b4 ELSE temp_char
            hc == IF got3 THEN b5 ELSE humid_char
            pk == [eeprom EXCEPT ![PACKET0] = ioc, ![PACKET1] = tc,
                                 ![PACKET2] = hc]
        IN  /\ rx' = s
            /\ io_char' = ioc
            /\ temp_char' = tc
            /\ humid_char' = hc
            /\ pc' = imp_next(b1, b2)
            /\ IF got3 /\ is_status(tc)
               THEN /\ eeprom' = packet_config(eeprom)
                    /\ log' = corrupt_log(eeprom)
                              \o Events("imp", imp_reply(eeprom, ioc, tc, hc))
                    /\ UNCHANGED commanded
                    /\ StatusSpill
               ELSE IF got3
               THEN /\ eeprom' = var_config(pk)
                    /\ log' = << <<"var_config", TEMPR_0>> >>
                              \o Events("xbee", xbee_forward(ioc, tc, hc))
                    /\ commanded' = << Settings(var_config(pk)) >>
                    /\ UNCHANGED <<current, editing, changed, pos_level>>
               ELSE /\ eeprom' = eeprom
                    /\ log' = <<>>
                    /\ UNCHANGED commanded
                    /\ UNCHANGED <<current, editing, changed, pos_level>>
    /\ UNCHANGED <<current_loop, addr, local_data_0, local_data_1, btn_type,
                   temp_sen, humid_sen, presses, counter>>
    /\ UNCHANGED edited
    /\ UNCHANGED aux_vars

ImpExchange == ImpExchangeOn(ImpRx)

----------------------------------------------------------------------------
(* The Xbee exchange                                                       *)

\* the four bytes sent to the Xbee after a sensor frame
xbee_ack(ioc, tc, hc) == <<XBEE_ACK, ioc, tc, hc>>

\* the Xbee exchange of lines 264-290, the Xbee offering one of streams
XbeeExchangeOn(streams) ==
    /\ pc = "xbee"
    /\ \E s \in streams :
        LET b1 == usart_in_xbee(Offered(s, 1))
            b2 == usart_in_xbee(Offered(s, 2))
            b3 == usart_in_xbee(Offered(s, 3))
            hdr == b1 = XBEE_HDR
            got1 == hdr /\ b2 # 255
            got2 == got1 /\ b3 # 255
            tc == IF got1 THEN b2 ELSE temp_char
            hc == IF got2 THEN b3 ELSE humid_char
        IN  /\ rx' = s
            /\ IF got2
               THEN /\ humid_sen' = hc % 128
                    /\ temp_sen' = tc % 128
                    /\ log' = Events("xbee", xbee_ack(io_char, tc, hc))
               ELSE /\ UNCHANGED <<humid_sen, temp_sen>>
                    /\ log' = <<>>
            /\ temp_char' = tc
            /\ humid_char' = hc
    /\ pc' = "mod"
    /\ UNCHANGED <<eeprom, current, editing, changed, current_loop, addr,
                   local_data_0, local_data_1, btn_type, io_char, presses>>
    /\ UNCHANGED aux_vars
    /\ UNCHANGED mem_vars
    /\ UNCHANGED hist_vars

XbeeExchange == XbeeExchangeOn(XbeeRx)

----------------------------------------------------------------------------
(* The controller                                                          *)

Next ==
    \/ Boot
    \/ BtnDbMod
    \/ Release0
    \/ Release1
    \/ Edit
    \/ ReleaseVal
    \/ ImpExchange
    \/ XbeeExchange

Spec == Init /\ [][Next]_vars

----------------------------------------------------------------------------
(* The codec on its own: encode any valid settings, then decode the packet *)

\* a store holding the settings with temperature digits th tl and mode m,
\* humidity digits hh hl and enable he, light mode l
Store(th, tl, m, hh, hl, he, l) ==
    [a \in Slots |->
        IF a = TEMPR_0 THEN th * 16 + tl
        ELSE IF a = TEMPR_1 THEN m * 64
        ELSE IF a = HUMID_0 THEN hh * 16 + hl
        ELSE IF a = HUMID_1 THEN he * 128
        ELSE IF a = LIGHT_0 THEN l * 64 ELSE 0]

\* every valid settings: decimal digits, any mode, any light mode
CodecInit ==
    /\ pc = "encode"
    /\ \E th \in 0..9, tl \in 0..9, m \in 0..3, hh \in 0..9, hl \in 0..9,
          he \in 0..1, l \in 0..2 :
          eeprom = Store(th, tl, m, hh, hl, he, l)
    /\ current = 0
    /\ editing = 0
    /\ changed = 0
    /\ current_loop = 0
    /\ addr = TEMPR_0
    /\ local_data_0 = 0
    /\ local_data_1 = 0
    /\ btn_type = 0
    /\ io_char = 0
    /\ temp_char = 0
    /\ humid_char = 0
    /\ temp_sen = 0
    /\ humid_sen = 0
    /\ rx = <<>>
    /\ log = <<>>
    /\ presses = 0
    /\ MemBoot
    /\ AuxBoot
    /\ HistBoot

\* packet_config(): the settings slots are encoded into the packet slots
CodecEncode ==
    /\ pc = "encode"
    /\ eeprom' = packet_config(eeprom)
    /\ pc' = "decode"
    /\ UNCHANGED <<current, editing, changed, current_loop, addr,
                   local_data_0, local_data_1, btn_type, io_char, temp_char,
                   humid_char, temp_sen, humid_sen, rx, log, presses>>
    /\ UNCHANGED aux_vars
    /\ UNCHANGED mem_vars
    /\ UNCHANGED hist_vars

\* var_config(): the packet slots are decoded into the settings slots
CodecDecode ==
    /\ pc = "decode"
    /\ eeprom' = var_config(eeprom)
    /\ pc' = "decoded"
    /\ UNCHANGED <<current, editing, changed, current_loop, addr,
                   local_data_0, local_data_1, btn_type, io_char, temp_char,
                   humid_char, temp_sen, humid_sen, rx, log, presses>>
    /\ UNCHANGED aux_vars
    /\ UNCHANGED mem_vars
    /\ UNCHANGED hist_vars

CodecNext == CodecEncode \/ CodecDecode

CodecSpec == CodecInit /\ [][CodecNext]_vars

----------------------------------------------------------------------------
(* The controller with its scheduling: main never pauses between statements, *)
(* and a pressed button is released in the end. The Imp offers silence,    *)
(* bytes that are no header, a frame that breaks off, a set command behind  *)
(* a stray byte, a set command that stores a temperature of 100, and a     *)
(* status request; the Xbee offers silence, a byte that is no header, a    *)
(* frame that breaks off and a complete frame                              *)

LiveImpRx ==
    { <<>>, <<IMP_HDR1>>, <<0>> \o ImpHeader \o <<36, 75, 40>>,
      ImpHeader \o <<72, 30>>,
      ImpHeader \o <<126, 100, 168>>,      \* stores 0xA0 as temperature
      ImpHeader \o <<126, 139, 168>> }     \* status request

LiveXbeeRx == { <<>>, <<200>>, <<XBEE_HDR, 200>>, <<XBEE_HDR, 200, 178>> }

\* the statements of main, the peers offering imp and xbee
StepOn(imp, xbee) ==
    \/ Boot
    \/ BtnDbMod
    \/ Edit
    \/ ImpExchangeOn(imp)
    \/ XbeeExchangeOn(xbee)

Step == StepOn(LiveImpRx, LiveXbeeRx)

\* the user lets go of the button a debounce loop waits on
Release == Release0 \/ Release1 \/ ReleaseVal

LiveNext == Step \/ Release

LiveSpec ==
    /\ Init
    /\ [][LiveNext]_vars
    /\ WF_vars(Step)
    /\ WF_vars(Release)

----------------------------------------------------------------------------
(* The same scheduling around the fault: the EEPROM at power-up was never  *)
(* written, or holds a temperature whose low digit is no decimal digit; the *)
(* Imp offers silence, set commands that store a temperature of 100 or     *)
(* humidity digits above 9, and a status request; the Xbee offers silence  *)
(* and a frame that breaks off                                             *)

FaultImpRx ==
    { <<>>,
      ImpHeader \o <<126, 100, 168>>,      \* stores 0xA0 as temperature
      ImpHeader \o <<2, 90, 130>>,         \* stores 0xD0 as humidity
      ImpHeader \o <<126, 139, 168>> }     \* status request

FaultXbeeRx == { <<>>, <<XBEE_HDR, 200>> }

\* EEPROM contents at power-up: erased, or a temperature byte 0x7A
FaultStores == {ErasedStore, [DefaultStore EXCEPT ![TEMPR_0] = 122]}

\* main at power-up with one of stores in the EEPROM
PowerUp(stores) ==
    /\ pc = "boot"
    /\ eeprom \in stores
    /\ current = 0
    /\ editing = 0
    /\ changed = 0
    /\ current_loop = 0
    /\ addr = TEMPR_0
    /\ local_data_0 = 0
    /\ local_data_1 = 0
    /\ btn_type = 0
    /\ io_char = 0
    /\ temp_char = 0
    /\ humid_char = 0
    /\ temp_sen = 0
    /\ humid_sen = 0
    /\ rx = <<>>
    /\ log = <<>>
    /\ presses = 0
    /\ MemBoot
    /\ AuxBoot
    /\ HistBoot

FaultInit == PowerUp(FaultStores)

FaultStep == StepOn(FaultImpRx, FaultXbeeRx)

FaultNext == FaultStep \/ Release

FaultSpec ==
    /\ FaultInit
    /\ [][FaultNext]_vars
    /\ WF_vars(FaultStep)
    /\ WF_vars(Release)

----------------------------------------------------------------------------
(* Boot from any EEPROM content, up to the first packet_config of the loop *)

\* EEPROM contents main may find at power-up: never written, written by an
\* earlier run, or written in the first slot only
BootStores ==
    {ErasedStore, [ErasedStore EXCEPT ![TEMPR_0] = 117]}
    \cup { Store(th, tl, m, hh, hl, he, l) :
              th \in {6, 7, 9}, tl \in {0, 5}, m \in 0..3, hh \in {0, 9},
              hl \in {0, 5}, he \in 0..1, l \in 0..2 }

BootInit ==
    /\ pc = "boot"
    /\ eeprom \in BootStores
    /\ current = 0
    /\ editing = 0
    /\ changed = 0
    /\ current_loop = 0
    /\ addr = TEMPR_0
    /\ local_data_0 = 0
    /\ local_data_1 = 0
    /\ btn_type = 0
    /\ io_char = 0
    /\ temp_char = 0
    /\ humid_char = 0
    /\ temp_sen = 0
    /\ humid_sen = 0
    /\ rx = <<>>
    /\ log = <<>>
    /\ presses = 0
    /\ MemBoot
    /\ AuxBoot
    /\ HistBoot

\* main from power-up to the reads of lines 208-210, before any exchange
BootNext ==
    \/ Boot
    \/ BtnDbMod
    \/ Release0
    \/ Release1
    \/ Edit
    \/ ReleaseVal

BootSpec == BootInit /\ [][BootNext]_vars

----------------------------------------------------------------------------
(* Sequences of value presses: the controller with silent peers, started on *)
(* a store an earlier run has written                                      *)

\* stores holding every temperature target of 60..90 with 40 %, and every
\* humidity target 0, 5 .. 95 with 75 F
PressStores ==
    { Store(t \div 10, t % 10, 0, 4, 0, 0, 0) : t \in 60..90 }
    \cup { Store(7, 5, 0, h \div 2, 5 * (h % 2), 0, 0) : h \in 0..19 }

PressInit == PowerUp(PressStores)

PressNext ==
    \/ Boot
    \/ BtnDbMod
    \/ Release0
    \/ Release1
    \/ EditOn(MaxSequence)
    \/ ReleaseVal
    \/ ImpExchangeOn({<<>>})
    \/ XbeeExchangeOn({<<>>})

PressSpec == PressInit /\ [][PressNext]_vars

----------------------------------------------------------------------------
(* var_config on its own: decode the payload of any set command            *)

\* the store right before var_config: the three payload bytes of a set
\* command in the packet slots (lines 246-248)
PacketStore(flags, t, h) ==
    [DefaultStore EXCEPT ![PACKET0] = flags, ![PACKET1] = t, ![PACKET2] = h]

\* payloads main hands to var_config: no byte is 0xFF and the temperature
\* byte has bit 7 clear; every flags byte with a few temperature and
\* humidity bytes, and every temperature and humidity byte with a few flags
DecodeInit ==
    /\ pc = "decode"
    /\ \/ \E flags \in 0..254, t \in {0, 75, 99}, h \in {0, 40, 168} :
             eeprom = PacketStore(flags, t, h)
       \/ \E flags \in {0, 36, 126}, t \in 0..127, h \in 0..254 :
             eeprom = PacketStore(flags, t, h)
    /\ current = 0
    /\ editing = 0
    /\ changed = 0
    /\ current_loop = 0
    /\ addr = TEMPR_0
    /\ local_data_0 = 0
    /\ local_data_1 = 0
    /\ btn_type = 0
    /\ io_char = 0
    /\ temp_char = 0
    /\ humid_char = 0
    /\ temp_sen = 0
    /\ humid_sen = 0
    /\ rx = <<>>
    /\ log = <<>>
    /\ presses = 0
    /\ MemBoot
    /\ AuxBoot
    /\ HistBoot

DecodeSpec == DecodeInit /\ [][CodecDecode]_vars

----------------------------------------------------------------------------
(* The auxiliary controller, src/unnamed/part_000: one pass of its loop    *)
(* reads two bytes from the Imp (usart_in blocks until a byte is there),   *)
(* answers a status request or applies a set command, drives the relay     *)

\* messages <<io_char, io_temp>> the Imp may send: every first byte with a
\* temperature of 60, and a few first bytes with status requests and other
\* temperatures
AuxCmds ==
    { <<c, 60>> : c \in 0..255 }
    \cup { <<c, t>> : c \in {0, 1, 127}, t \in {0, 90, 128, 200} }

\* (io_char & 0x01) != 0: the message comes from the Imp
aux_from_imp(c) == Bit(c, 0) # 0

\* (io_temp & 0x80) != 0: the message is a status request
aux_is_status(t) == Bit(t, 7) # 0

\* the first byte of a status reply, built from the six switches
aux_status_byte(lo, la, co, he, fa, ac) ==
    (IF lo > 0 THEN 64 ELSE 0) + (IF la > 0 THEN 32 ELSE 0)
    + (IF co > 0 THEN 16 ELSE 0) + (IF he > 0 THEN 8 ELSE 0)
    + (IF fa > 0 THEN 4 ELSE 0) + (IF ac > 0 THEN 2 ELSE 0) + 1

\* a switch after a set command: on iff its bit k is set in io_char
aux_switch(c, k) == IF Bit(c, k) # 0 THEN 1 ELSE 0

\* one pass of the while (1) loop
AuxLoop ==
    /\ \E cmd \in AuxCmds :
        LET c == cmd[1]
            t == cmd[2]
            status == aux_from_imp(c) /\ aux_is_status(t)
            set == aux_from_imp(c) /\ ~aux_is_status(t)
            lo == IF set THEN aux_switch(c, 6) ELSE lightsOn
        IN  /\ aux_rx' = cmd
            /\ aux_tx' = IF status
                         THEN << aux_status_byte(lightsOn, lightsAuto,
                                     coolerOn, heaterOn, fanOn,
                                     acAutoModeOn), temp >>
                         ELSE <<>>
            /\ lightsOn' = lo
            /\ lightsAuto' = IF set THEN aux_switch(c, 5) ELSE lightsAuto
            /\ coolerOn' = IF set THEN aux_switch(c, 4) ELSE coolerOn
            /\ heaterOn' = IF set THEN aux_switch(c, 3) ELSE heaterOn
            /\ fanOn' = IF set THEN aux_switch(c, 2) ELSE fanOn
            /\ acAutoModeOn' = IF set THEN aux_switch(c, 1) ELSE acAutoModeOn
            /\ PORTC' = IF lo # 0 THEN 1 ELSE 0
    /\ temp' = temp
    /\ UNCHANGED main_vars
    /\ UNCHANGED mem_vars
    /\ UNCHANGED hist_vars

AuxSpec == Init /\ [][AuxLoop]_vars

----------------------------------------------------------------------------
(* Vocabulary of the properties                                            *)

\* an Imp byte stream that is a complete frame: header, three payload bytes,
\* none of them 0xFF
ImpComplete(s) ==
    /\ Len(s) >= 5
    /\ s[1] = 169 /\ s[2] = 101
    /\ s[3] # 255 /\ s[4] # 255 /\ s[5] # 255

ImpStatusReq(s) == ImpComplete(s) /\ s[4] >= 128
ImpSetCmd(s) == ImpComplete(s) /\ s[4] < 128

\* the bytes sent to a peer in a phase, in order
Sent(lg, peer) ==
    LET idx == SelectSeq([i \in 1..Len(lg) |-> i], LAMBDA i : lg[i][1] = peer)
    IN  [k \in 1..Len(idx) |-> lg[idx[k]][2]]

----------------------------------------------------------------------------
(* Properties                                                              *)

\* a byte holding two decimal digits, and the number they spell
Decimal(d) == HighNibble(d) <= 9 /\ LowNibble(d) <= 9
Value(d) == HighNibble(d) * 10 + LowNibble(d)

\* C1: encoding valid settings and decoding the packet gives the settings back
C1_RoundTrip ==
    [][pc = "decode" => Settings(eeprom') = Settings(eeprom)]_vars

\* C2: an Imp status request leaves the persisted settings as they were and
\* sends nothing to the Xbee during the Imp exchange
C2_StatusKeepsSettings ==
    [][(pc = "imp" /\ ImpStatusReq(rx')) =>
          /\ Settings(eeprom') = Settings(eeprom)
          /\ Sent(log', "xbee") = <<>>]_vars

\* a status request has been answered
C2_StatusAnswered ==
    pc = "xbee" /\ ImpStatusReq(rx) /\ Len(Sent(log, "imp")) = 3

\* C3: the reply to a status request is exactly the three bytes encoding the
\* persisted settings, whatever flags and humidity bytes the request carried;
\* with 75 F / fan / light on these are flags 0x24 and temperature 75
C3_StatusReply ==
    [][(pc = "imp" /\ ImpStatusReq(rx')) =>
          /\ Sent(log', "imp") = << packet_bools(eeprom),
                                    packet_tempr(eeprom),
                                    packet_humid(eeprom) >>
          /\ (Settings(eeprom).tempr = <<7, 5>> /\ Settings(eeprom).mode = 1
              /\ Settings(eeprom).light = 2) =>
                (Sent(log', "imp")[1] = 36 /\ Sent(log', "imp")[2] = 75)]_vars

\* the request 0x7E 0x8B 0xA8 was answered with 0x24 75 40
C3_FanLightOnReported ==
    /\ pc = "xbee"
    /\ rx = ImpHeader \o <<126, 139, 168>>
    /\ Settings(eeprom).mode = 1
    /\ Settings(eeprom).light = 2
    /\ Sent(log, "imp") = <<36, 75, 40>>

\* C4: a set command is decoded into the settings first and then its three
\* payload bytes go to the Xbee unchanged and in order, before the Xbee
\* exchange, which only ever starts after the Imp exchange
C4_SetForwarded ==
    [][/\ (pc = "imp" /\ ImpSetCmd(rx')) =>
            /\ log' = << <<"var_config", TEMPR_0>>, <<"xbee", rx'[3]>>,
                         <<"xbee", rx'[4]>>, <<"xbee", rx'[5]>> >>
            /\ pc' = "xbee"
       /\ (pc' = "xbee") => (pc = "imp")
       /\ (pc = "xbee" /\ pc' # "xbee") => (pc' = "mod")]_vars

\* the command 0x7E 100 0xA8, which decodes to other settings, went out as is
C4_RawForwarded ==
    /\ pc = "xbee"
    /\ rx = ImpHeader \o <<126, 100, 168>>
    /\ Sent(log, "xbee") = <<126, 100, 168>>
    /\ packet_bools(eeprom) # 126

\* C5: an Imp exchange that does not get a complete frame (a read times out,
\* a header byte is wrong, a payload byte is 0xFF) changes neither settings
\* nor sensed readings and sends nothing
C5_AbortNoEffect ==
    [][(pc = "imp" /\ ~ImpComplete(rx')) =>
          /\ Settings(eeprom') = Settings(eeprom)
          /\ temp_sen' = temp_sen
          /\ humid_sen' = humid_sen
          /\ log' = <<>>]_vars

\* the Imp fell silent after two payload bytes
C5_AbortedAfterTwo ==
    /\ pc = "xbee"
    /\ rx = ImpHeader \o <<72, 30>>
    /\ io_char = 72
    /\ temp_char = 30
    /\ log = <<>>

\* C6: after a set command both persisted temperature digits are decimal
C6_SetKeepsDigits ==
    (pc = "xbee" /\ ImpSetCmd(rx)) => Decimal(eeprom[TEMPR_0])

\* C7: in the temperature value phase a press on a target in 60..90 gives a
\* target in 60..90 with decimal digits: up is +1 and 90 -> 60, down is -1
\* and 60 -> 90
C7_TempWraps ==
    [][(/\ pc = "spin_val" /\ current = 0 /\ editing = 2
        /\ Decimal(local_data_0) /\ Value(local_data_0) \in 60..90) =>
          /\ Decimal(local_data_0')
          /\ Value(local_data_0') \in 60..90
          /\ (btn_type = 1) =>
                Value(local_data_0') =
                   IF Value(local_data_0) = 90 THEN 60
                   ELSE Value(local_data_0) + 1
          /\ (btn_type = 2) =>
                Value(local_data_0') =
                   IF Value(local_data_0) = 60 THEN 90
                   ELSE Value(local_data_0) - 1]_vars

\* two presses took the buffer from the persisted 61 down to 60 and round
\* to 90
C7_WrappedTo90 ==
    /\ pc = "imp" /\ current = 0 /\ editing = 2 /\ presses = 2
    /\ eeprom[TEMPR_0] = 97
    /\ local_data_0 = 144

\* C8: in the humidity value phase a press on a target that is a multiple of
\* 5 in 0..95 gives (h + 5) mod 100 for up and (h - 5) mod 100 for down, with
\* decimal digits
C8_HumidSteps ==
    [][(/\ pc = "spin_val" /\ current = 1 /\ editing = 2
        /\ Decimal(local_data_0) /\ Value(local_data_0) % 5 = 0) =>
          /\ Decimal(local_data_0')
          /\ (btn_type = 1) =>
                Value(local_data_0') = (Value(local_data_0) + 5) % 100
          /\ (btn_type = 2) =>
                Value(local_data_0') = (Value(local_data_0) + 95) % 100]_vars

\* three presses took the buffer from the persisted 90 up to 95, round to 0
\* and on to 5
C8_CarriedTo5 ==
    /\ pc = "imp" /\ current = 1 /\ editing = 2 /\ presses = 3
    /\ eeprom[HUMID_0] = 144
    /\ local_data_0 = 5

\* C9: the pass of the loop that finds the edit phase idle with the change
\* flag set commits and clears the flag, so the commit is not repeated
C9_CommitClearsFlag ==
    [][(pc = "edit" /\ editing = 0 /\ changed # 0) => changed' = 0]_vars

\* C10: the loop never hangs on the peers: whatever they send or fail to
\* send, main comes back to the start of its inner loop (btn_db_mod) again
\* and again, and leaves it again each time, provided buttons are released
C10_TickCompletes == []<>(pc = "mod") /\ []<>(pc # "mod")

\* an iteration ended although the Xbee fell silent in the middle of a frame
C10_TickEndedOnSilence ==
    pc = "mod" /\ rx = <<XBEE_HDR, 200>> /\ log = <<>>

\* an Imp byte stream in which a complete frame follows bytes that are
\* neither the first header byte nor 0xFF, with no silence in between
ImpFrameBehindNoise(s) ==
    \E n \in 1..(Len(s) - 5) :
        /\ \A j \in 1..n : s[j] # 255 /\ s[j] # IMP_HDR0
        /\ ImpComplete(SubSeq(s, n + 1, Len(s)))

\* C11: a complete Imp frame that arrives behind bytes that are no header is
\* still recognised and processed in the same exchange (a set command is
\* decoded and forwarded, a status request is answered)
C11_FramingRecovery ==
    [][(pc = "imp" /\ ImpFrameBehindNoise(rx')) => log' # <<>>]_vars

\* an Xbee byte stream that is a complete sensor frame: header and two
\* payload bytes, none of them 0xFF
XbeeComplete(s) ==
    /\ Len(s) >= 3
    /\ s[1] = XBEE_HDR
    /\ s[2] # 255 /\ s[3] # 255

\* C12: a complete sensor frame stores the low 7 bits of its two bytes as the
\* sensed readings and is acknowledged with exactly 0xD4 and the flags,
\* temperature-target and humidity-target bytes of the packet; any other
\* Xbee exchange stores nothing and sends nothing
C12_SensorAck ==
    [][pc = "xbee" =>
          IF XbeeComplete(rx')
          THEN /\ temp_sen' = rx'[2] % 128
               /\ humid_sen' = rx'[3] % 128
               /\ Sent(log', "xbee") =
                     <<XBEE_ACK, eeprom[PACKET0], eeprom[PACKET1],
                       eeprom[PACKET2]>>
          ELSE /\ temp_sen' = temp_sen
               /\ humid_sen' = humid_sen
               /\ log' = <<>>]_vars

\* the settings main writes into an erased EEPROM: 75 F / Auto, 40 % /
\* disabled, light Auto
DefaultSettings ==
    [ tempr |-> <<7, 5>>, mode |-> 0, humid |-> <<4, 0>>, hum_e |-> 0,
      light |-> 0 ]

\* C13: boot on an erased store (TEMPR_0 reads 0xFF) writes the default
\* settings, and encoding them gives flags 0x42 (acAuto and lightIsAuto
\* only), temperature 75, humidity 40; boot on any other store writes nothing
C13_BootDefaults ==
    [][/\ (pc = "boot" /\ eeprom[TEMPR_0] = ERASED) =>
             Settings(eeprom') = DefaultSettings
       /\ (pc = "boot" /\ eeprom[TEMPR_0] # ERASED) => eeprom' = eeprom
       /\ (pc' = "imp" /\ Settings(eeprom) = DefaultSettings) =>
             /\ eeprom'[PACKET0] = 66
             /\ eeprom'[PACKET1] = 75
             /\ eeprom'[PACKET2] = 40
             /\ io_char' = 66 /\ temp_char' = 75 /\ humid_char' = 40]_vars

\* the first encode after a boot on the erased store has happened
C13_DefaultsEncoded ==
    /\ pc = "imp"
    /\ Settings(eeprom) = DefaultSettings
    /\ eeprom[PACKET0] = 66 /\ eeprom[PACKET1] = 75 /\ eeprom[PACKET2] = 40

\* C14: var_config copies the fields of a set command: the temperature target
\* becomes the temperature byte t (0..99), humidityEnabled becomes bit 7 of
\* the humidity byte h and the humidity target becomes h & 0x7F (0..99),
\* whether or not bit 7 of h is set
C14_DecodeCopiesFields ==
    [][(/\ pc = "decode" /\ eeprom[PACKET1] <= 99
        /\ eeprom[PACKET2] % 128 <= 99) =>
          /\ Decimal(eeprom'[TEMPR_0])
          /\ Value(eeprom'[TEMPR_0]) = eeprom[PACKET1]
          /\ Settings(eeprom').hum_e = Bit(eeprom[PACKET2], 7)
          /\ Decimal(eeprom'[HUMID_0])
          /\ Value(eeprom'[HUMID_0]) = eeprom[PACKET2] % 128]_vars

\* C15: var_config decodes every flags byte by priority: the temperature mode
\* is Auto (0) if bit 1 is set, else Fan (1) if bit 2, else Heat (2) if
\* bit 3, else Cool (3), bit 4 playing no part; the light mode is Auto (0)
\* if bit 6 is set, else On (2) if bit 5, else Off (1)
C15_FlagsByPriority ==
    [][pc = "decode" =>
          LET flags == eeprom[PACKET0]
              b(k) == (flags \div (2 ^ k)) % 2 = 1
          IN  /\ Settings(eeprom').mode =
                    IF b(1) THEN 0 ELSE IF b(2) THEN 1
                    ELSE IF b(3) THEN 2 ELSE 3
              /\ Settings(eeprom').light =
                    IF b(6) THEN 0 ELSE IF b(5) THEN 2 ELSE 1
              /\ eeprom'[TEMPR_1] % 64 = 0
              /\ eeprom'[LIGHT_0] % 64 = 0]_vars

\* flags 0x2C (fan, heater and light-on bits together) were decoded as Fan
\* and On
C15_SeveralBitsDecoded ==
    /\ pc = "decoded"
    /\ eeprom[PACKET0] = 44
    /\ Settings(eeprom).mode = 1
    /\ Settings(eeprom).light = 2

HasFault(lg) == \E j \in 1..Len(lg) : lg[j][1] = "corrupt"

\* C19: the fault is signalled exactly when packet_config reads a persisted
\* temperature byte with a digit above 9 (before the Imp exchange and again
\* when a status request is answered), it always names the temperature slot
\* and is never raised for the humidity digits; after a fault the loop goes
\* on: the iteration runs both exchanges and comes back to btn_db_mod
C19_FaultAndResume ==
    /\ [][/\ (pc' = "imp") =>
                (HasFault(log') <=> ~Decimal(eeprom'[TEMPR_0]))
          /\ (pc = "imp" /\ ImpStatusReq(rx')) =>
                (HasFault(log') <=> ~Decimal(eeprom[TEMPR_0]))
          /\ (pc = "imp" /\ ~ImpStatusReq(rx')) => ~HasFault(log')
          /\ (pc = "xbee" \/ pc' = "mod") => ~HasFault(log')
          /\ \A j \in 1..Len(log') :
                (log'[j][1] = "corrupt") => (log'[j][2] = TEMPR_0)
          /\ (pc = "imp" /\ HasFault(log)) => (pc' = "xbee")
          /\ (pc = "xbee") => (pc' = "mod")]_vars
    /\ [](HasFault(log) => <>(pc = "mod"))

\* with 0x7A persisted as temperature (high digit 7, low digit 10) the fault
\* was signalled in this iteration, and main still answered a status request
\* and went on to the Xbee exchange
C19_ResumedAfterFault ==
    /\ pc = "xbee"
    /\ eeprom[TEMPR_0] = 122
    /\ ImpStatusReq(rx)
    /\ HasFault(log)
    /\ Len(Sent(log, "imp")) = 3

\* the packet slots hold a well-formed packet: exactly one of the mode bits
\* 1..4, at most one of the light bits 5 and 6, flags bits 0 and 7 clear,
\* temperature bit 7 clear
WellFormedPacket(ee) ==
    /\ Bit(ee[PACKET0], 1) + Bit(ee[PACKET0], 2) + Bit(ee[PACKET0], 3)
          + Bit(ee[PACKET0], 4) = 1
    /\ Bit(ee[PACKET0], 5) + Bit(ee[PACKET0], 6) <= 1
    /\ Bit(ee[PACKET0], 0) = 0
    /\ Bit(ee[PACKET0], 7) = 0
    /\ Bit(ee[PACKET1], 7) = 0

\* C20: every packet that packet_config writes is well formed, so a status
\* reply never reads as a status request (before the Imp exchange, in the
\* reply to a status request, and for every valid settings)
C20_PacketWellFormed ==
    [][(\/ pc = "encode"
        \/ pc' = "imp"
        \/ (pc = "imp" /\ ImpStatusReq(rx'))) =>
          (WellFormedPacket(eeprom') /\ ~is_status(eeprom'[PACKET1]))]_vars

\* 99 F / Cool, 99 % enabled, light On was encoded as 0x30, 99, 0xE3
C20_CoolLightOnEncoded ==
    /\ pc = "decode"
    /\ Settings(eeprom).mode = 3 /\ Settings(eeprom).light = 2
    /\ eeprom[PACKET0] = 48
    /\ eeprom[PACKET1] = 99
    /\ eeprom[PACKET2] = 227

\* C21: the sensed readings are 0 until the first sensor frame, always in
\* 0..127, and change only in the Xbee exchange of an iteration in which a
\* complete sensor frame arrived, where both are set from that frame; the
\* Imp exchange, the buttons and the commit never change them
C21_SensedOwnedByXbee ==
    [][/\ (pc = "boot") => (temp_sen = 0 /\ humid_sen = 0)
       /\ temp_sen' \in 0..127 /\ humid_sen' \in 0..127
       /\ (temp_sen' # temp_sen \/ humid_sen' # humid_sen) =>
             (pc = "xbee" /\ XbeeComplete(rx'))
       /\ (pc = "xbee" /\ XbeeComplete(rx')) =>
             (temp_sen' = rx'[2] % 128 /\ humid_sen' = rx'[3] % 128)
       /\ (pc = "xbee" /\ ~XbeeComplete(rx')) =>
             (temp_sen' = temp_sen /\ humid_sen' = humid_sen)]_vars

\* readings taken in an earlier iteration survived an iteration whose sensor
\* frame broke off after the temperature byte
C21_ReadingsKept ==
    /\ pc = "mod"
    /\ rx = <<XBEE_HDR, 200>>
    /\ log = <<>>
    /\ temp_sen = 72 /\ humid_sen = 50

\* C22: every iteration of the loop runs the Imp exchange and then the Xbee
\* exchange after its button and edit handling: btn_db_mod is only ever
\* reached again from the end of the Xbee exchange, also in an iteration
\* that handled the mode-select or the phase button
C22_TickRunsExchanges ==
    [][/\ (pc' = "mod") => (pc = "boot" \/ pc = "xbee")
       /\ (pc' = "xbee") => (pc = "imp")
       /\ (pc = "imp") => (pc' = "xbee")]_vars

\* C23: from the default settings on, whatever set commands the Imp sends
\* and whatever is edited with the buttons, the persisted temperature target
\* is a two-digit decimal number in 60..90
C23_TempInRange ==
    (pc # "boot") =>
        (Decimal(eeprom[TEMPR_0]) /\ Value(eeprom[TEMPR_0]) \in 60..90)

\* messages of the auxiliary controller's protocol, as last read
AuxIsStatus(cmd) ==
    Len(cmd) = 2 /\ aux_from_imp(cmd[1]) /\ aux_is_status(cmd[2])
AuxIsSet(cmd) ==
    Len(cmd) = 2 /\ aux_from_imp(cmd[1]) /\ ~aux_is_status(cmd[2])

\* C24: in the auxiliary controller a set command carrying temperature n
\* sets the auto temperature, so the status request that follows is answered
\* with temperature byte n; a status request changes neither the switches
\* nor the temperature
C24_AuxSetTemperature ==
    [][/\ (AuxIsSet(aux_rx) /\ AuxIsStatus(aux_rx')) =>
             (Len(aux_tx') = 2 /\ aux_tx'[2] = aux_rx[2])
       /\ AuxIsStatus(aux_rx') =>
             /\ temp' = temp
             /\ <<lightsOn', lightsAuto', coolerOn', heaterOn', fanOn',
                  acAutoModeOn'>> =
                <<lightsOn, lightsAuto, coolerOn, heaterOn, fanOn,
                  acAutoModeOn>>]_vars

\* C25: in the auxiliary controller the A/C functions exclude each other:
\* after any set command at most one of heater, cooler, fan and automatic
\* mode is on
C25_AuxExclusive ==
    AuxIsSet(aux_rx) => (heaterOn + coolerOn + fanOn + acAutoModeOn <= 1)

\* C26: once an Imp set command has been applied and no button was pressed
\* since, the persisted settings are the ones decoded from that command, in
\* every phase of every later tick
C26_CommandHolds ==
    commanded # <<>> => Settings(eeprom) = commanded[1]

ImpPartial(s) ==
    /\ Len(s) >= 3
    /\ s[1] = 169 /\ s[2] = 101
    /\ s[3] # 255
    /\ ~ImpComplete(s)

\* C28: in a tick whose Imp exchange aborted after one or two payload bytes,
\* or was a status request, the flags byte of the acknowledgement sent to the
\* Xbee is the flags byte encoded from the persisted settings
C28_AckFlagsPersisted ==
    [][(pc = "xbee" /\ (ImpPartial(rx) \/ ImpStatusReq(rx))
          /\ XbeeComplete(rx')) =>
             Sent(log', "xbee")[2] = packet_bools(eeprom)]_vars

\* C29: the commit of a temperature edit changes only the edited field, also
\* when set commands arrived during the editing session: humidity and light
\* stay as persisted right before the commit, a session that edited only the
\* value (phase 2) keeps the persisted mode, and a session that edited only
\* the mode (phase 1) keeps the persisted target
C29_CommitOnlyEdited ==
    [][(pc = "edit" /\ editing = 0 /\ changed # 0 /\ addr = TEMPR_0
          /\ edited # {}) =>
             /\ Settings(eeprom').humid = Settings(eeprom).humid
             /\ Settings(eeprom').hum_e = Settings(eeprom).hum_e
             /\ Settings(eeprom').light = Settings(eeprom).light
             /\ edited = {2} =>
                    Settings(eeprom').mode = Settings(eeprom).mode
             /\ edited = {1} =>
                    Settings(eeprom').tempr = Settings(eeprom).tempr]_vars

====
